---- MODULE Spec2Model ----
(***************************************************************************)
(* A model of the store backend of src/main.py: the handlers               *)
(* seed_products, search_products, get_product and create_order over the   *)
(* "product" and "order" collections of the document database.             *)
(*                                                                         *)
(* Conventions.                                                            *)
(*   - Python's Optional[T] is a sequence of length 0 (None) or 1.         *)
(*   - Text that is inspected character by character (titles, search       *)
(*     patterns, identifiers) is a sequence of one-character strings;      *)
(*     labels that are only compared (category, color, size, tag) are      *)
(*     strings.                                                            *)
(*   - Prices and ratings are integers (whole currency units).             *)
(*   - A Product carries the fields the handlers read; brand, images,      *)
(*     compare_at_price, rating_count, sku and stock are stored and        *)
(*     returned untouched and are left out.                                *)
(***************************************************************************)
EXTENDS Integers, Sequences, FiniteSets, TLC

VARIABLES
    db,          \* TRUE iff the database handle is configured (db is not None)
    product,     \* the "product" collection, in natural (insertion) order
    order,       \* the "order" collection, in natural (insertion) order
    pc,          \* "idle": waiting for a request; "responded": a response is out
    request,     \* the request being answered
    response     \* the response of the handler

vars == <<db, product, order, pc, request, response>>

(***************************************************************************)
(* Bounds of the model.                                                    *)
(***************************************************************************)
MaxProducts == 3
MaxBatch == 2
MaxOrders == 1

(***************************************************************************)
(* Optional values and Python truthiness.                                  *)
(***************************************************************************)
None == <<>>
Some(x) == <<x>>

\* `if s:` for an Optional[str]
TruthyStr(o) == o # None /\ o[1] # ""
\* `if xs:` for an Optional[List] or an Optional character sequence
TruthyList(o) == o # None /\ Len(o[1]) > 0

Max(a, b) == IF a >= b THEN a ELSE b
Min(a, b) == IF a <= b THEN a ELSE b

(***************************************************************************)
(* Characters.                                                             *)
(***************************************************************************)
UpperCase == <<"A", "B", "C", "D", "E", "F", "L", "O", "T">>
LowerCase == <<"a", "b", "c", "d", "e", "f", "l", "o", "t">>

ToLower(c) ==
    IF \E i \in 1..Len(UpperCase) : UpperCase[i] = c
    THEN LowerCase[CHOOSE i \in 1..Len(UpperCase) : UpperCase[i] = c]
    ELSE c

ToUpper(c) ==
    IF \E i \in 1..Len(LowerCase) : LowerCase[i] = c
    THEN UpperCase[CHOOSE i \in 1..Len(LowerCase) : LowerCase[i] = c]
    ELSE c

(***************************************************************************)
(* ObjectId: 12 bytes; str(ObjectId) is 24 lower-case hex digits and       *)
(* ObjectId(str) accepts exactly the strings of 24 hex digits.             *)
(***************************************************************************)
OidBytes == 12
HexDigits == <<"0", "1", "2", "3", "4", "5", "6", "7", "8", "9",
               "a", "b", "c", "d", "e", "f">>

IsHexDigit(c) == \E i \in 1..16 : HexDigits[i] = ToLower(c)
HexValue(c) == (CHOOSE i \in 1..16 : HexDigits[i] = ToLower(c)) - 1

\* str(oid)
ObjectIdToStr(oid) ==
    [i \in 1..(2 * Len(oid)) |->
        LET b == oid[(i + 1) \div 2]
        IN  IF i % 2 = 1 THEN HexDigits[(b \div 16) + 1] ELSE HexDigits[(b % 16) + 1]]

\* whether ObjectId(s) returns (TRUE) or raises InvalidId (FALSE)
ObjectIdValid(s) ==
    /\ Len(s) = 2 * OidBytes
    /\ \A i \in 1..Len(s) : IsHexDigit(s[i])

\* ObjectId(s) for a valid s
ObjectIdParse(s) ==
    [i \in 1..(Len(s) \div 2) |-> 16 * HexValue(s[2 * i - 1]) + HexValue(s[2 * i])]

\* the identifier generated for the n-th document (n >= 1) of a collection:
\* identifiers are distinct across documents and collections
GeneratedOid(name, n) ==
    [i \in 1..OidBytes |->
        IF i = OidBytes THEN 9 + n
        ELSE IF i = 1 THEN (IF name = "product" THEN 101 ELSE 79)
        ELSE 0]

(***************************************************************************)
(* Products (schemas.Product after validation).                            *)
(***************************************************************************)
Variant(size, color) == [size |-> size, color |-> color]

Product(title, description, price, category, subcategory, rating, tags, variants, is_active) ==
    [title |-> title, description |-> description, price |-> price,
     category |-> category, subcategory |-> subcategory, rating |-> rating,
     tags |-> tags, variants |-> variants, is_active |-> is_active]

\* "Lace": two variants of the same color, and a color and a size that meet
\* on no single variant
LaceBra ==
    Product(<<"L", "a", "c", "e">>, None, 20, "Bras", Some("T-Shirt"), Some(4),
            Some(<<"new">>),
            <<Variant("S", "red"), Variant("M", "red"), Variant("M", "blue")>>, TRUE)
\* "Cot", described as "lace": a variant whose color is the empty string, two
\* variants of the same size; ties with LaceBra on rating
CottonBrief ==
    Product(<<"C", "o", "t">>, Some(<<"l", "a", "c", "e">>), 10, "Briefs", Some(""), Some(4),
            Some(<<"sale", "new">>), <<Variant("M", ""), Variant("M", "blue")>>, TRUE)
\* an inactive product that every filter value would match
Hidden ==
    Product(<<"L", "a", "c", "e">>, Some(<<"l", "a", "c", "e">>), 10, "Bras", Some("T-Shirt"),
            Some(5), Some(<<"new">>), <<Variant("S", "red"), Variant("M", "blue")>>, FALSE)
\* a free product without variants, tags or rating
Free ==
    Product(<<"L", "A", "C", "E">>, None, 0, "Bras", None, None, None, <<>>, TRUE)

Products == {LaceBra, CottonBrief, Hidden, Free}

RECURSIVE SeqsUpTo(_, _)
\* the sequences over S of length at most n
SeqsUpTo(S, n) ==
    IF n = 0 THEN {<<>>}
    ELSE LET shorter == SeqsUpTo(S, n - 1)
         IN  shorter \cup {Append(s, x) : s \in shorter, x \in S}

\* the bodies of POST /api/products/seed
SeedLists == SeqsUpTo(Products, MaxBatch)

(***************************************************************************)
(* FilterRequest (src/main.py) and the requests the model sends.           *)
(***************************************************************************)
DefaultPage == 1
DefaultLimit == 24

FilterRequest(category, subcategory, price_min, price_max, colors, sizes, tags, sort, search, page, limit) ==
    [category |-> category, subcategory |-> subcategory,
     price_min |-> price_min, price_max |-> price_max,
     colors |-> colors, sizes |-> sizes, tags |-> tags,
     sort |-> sort, search |-> search, page |-> page, limit |-> limit]

PriceBounds == {None, Some(0), Some(10)}
ColorLists == {None, Some(<<>>), Some(<<"red">>), Some(<<"blue", "green">>)}
SizeLists == {None, Some(<<"S">>)}
Categories == {None, Some(""), Some("Bras")}
Subcategories == {None, Some("T-Shirt")}
TagLists == {None, Some(<<"new">>)}
Searches == {None, Some(<<"A", "c">>)}
Sorts == {None, Some("price_asc"), Some("price_desc"), Some("rating"), Some("newest")}
Pages == {0, 1, 2, 3}
Limits == {-1, 0, 1, 2, DefaultLimit}

\* requests that vary the price bounds and the variant filters
PriceVariantRequests ==
    {FilterRequest(None, None, lo, hi, co, sz, None, None, None, DefaultPage, DefaultLimit) :
        lo \in PriceBounds, hi \in PriceBounds, co \in ColorLists, sz \in SizeLists}

\* requests that vary the other predicates
PredicateRequests ==
    {FilterRequest(c, sc, lo, None, None, None, tg, None, se, DefaultPage, DefaultLimit) :
        c \in Categories, sc \in Subcategories, lo \in {None, Some(10)},
        tg \in TagLists, se \in Searches}

\* requests that vary sorting and paging
PagingRequests ==
    {FilterRequest(None, None, None, None, co, None, None, so, None, pg, li) :
        co \in {None, Some(<<"red">>)}, so \in Sorts, pg \in Pages, li \in Limits}

FilterRequests == PriceVariantRequests \cup PredicateRequests \cup PagingRequests

(***************************************************************************)
(* search_products: the query predicate.  A clause is None when the key    *)
(* is not put into the query.                                              *)
(***************************************************************************)
\* faulty variant: the query starts empty
ActiveClauseOmitted == None

ActiveClause == Some(TRUE)

CategoryClause(filters) ==
    IF TruthyStr(filters.category) THEN filters.category ELSE None

SubcategoryClause(filters) ==
    IF TruthyStr(filters.subcategory) THEN filters.subcategory ELSE None

ColorClause(filters) ==
    IF TruthyList(filters.colors) THEN filters.colors ELSE None

\* faulty variant: the size key is given the colors
SizeClauseAsColors(filters) ==
    IF TruthyList(filters.sizes) THEN filters.colors ELSE None

SizeClause(filters) ==
    IF TruthyList(filters.sizes) THEN filters.sizes ELSE None

TagsClause(filters) ==
    IF TruthyList(filters.tags) THEN filters.tags ELSE None

SearchClause(filters) ==
    IF TruthyList(filters.search) THEN filters.search ELSE None

\* faulty variant: the bounds are tested for truth, so that a bound of 0 is dropped
price_filter_truthy(filters) ==
    [gte |-> IF filters.price_min # None /\ filters.price_min[1] # 0
             THEN filters.price_min ELSE None,
     lte |-> IF filters.price_max # None /\ filters.price_max[1] # 0
             THEN filters.price_max ELSE None]

\* the dict price_filter: a key is present iff the bound is not None
price_filter(filters) ==
    [gte |-> filters.price_min, lte |-> filters.price_max]

PriceClause(filters) ==
    LET pf == price_filter(filters)
    IN  IF pf.gte # None \/ pf.lte # None THEN Some(pf) ELSE None

Query(filters) ==
    [is_active |-> ActiveClause,
     category |-> CategoryClause(filters),
     subcategory |-> SubcategoryClause(filters),
     variants_color |-> ColorClause(filters),
     variants_size |-> SizeClause(filters),
     tags |-> TagsClause(filters),
     or_search |-> SearchClause(filters),
     price |-> PriceClause(filters)]

\* {"$in": list} against a scalar
InList(x, list) == \E j \in 1..Len(list) : list[j] = x

\* {"$regex": pattern, "$options": "i"} for a pattern of literal characters:
\* the pattern occurs in the text, letter case ignored
RegexI(text, pattern) ==
    \E k \in 0..(Len(text) - Len(pattern)) :
        \A j \in 1..Len(pattern) : ToLower(text[k + j]) = ToLower(pattern[j])

\* whether the database matches doc against the query
Matches(doc, query) ==
    /\ query.is_active # None => doc.is_active = query.is_active[1]
    /\ query.category # None => doc.category = query.category[1]
    /\ query.subcategory # None => doc.subcategory = query.subcategory
    /\ query.variants_color # None =>
          \E i \in 1..Len(doc.variants) : InList(doc.variants[i].color, query.variants_color[1])
    /\ query.variants_size # None =>
          \E i \in 1..Len(doc.variants) : InList(doc.variants[i].size, query.variants_size[1])
    /\ query.tags # None =>
          /\ doc.tags # None
          /\ \E i \in 1..Len(doc.tags[1]) : InList(doc.tags[1][i], query.tags[1])
    /\ query.or_search # None =>
          \/ RegexI(doc.title, query.or_search[1])
          \/ doc.description # None /\ RegexI(doc.description[1], query.or_search[1])
    /\ query.price # None =>
          /\ query.price[1].gte # None => doc.price >= query.price[1].gte[1]
          /\ query.price[1].lte # None => doc.price <= query.price[1].lte[1]

\* collection.find(query): the matching documents in natural order
find(collection, query) == SelectSeq(collection, LAMBDA d : Matches(d, query))

\* collection.count_documents(query)
count_documents(collection, query) == Len(find(collection, query))

(***************************************************************************)
(* search_products: sorting and paging.                                    *)
(***************************************************************************)
sort_spec(filters) ==
    IF filters.sort = Some("price_asc") THEN Some(<<"price", 1>>)
    ELSE IF filters.sort = Some("price_desc") THEN Some(<<"price", -1>>)
    ELSE IF filters.sort = Some("rating") THEN Some(<<"rating", -1>>)
    ELSE None

\* the sort key of a document; a null rating sorts below every number
SortKey(doc, field) ==
    IF field = "price" THEN doc.price
    ELSE IF doc.rating = None THEN -1 ELSE doc.rating[1]

\* whether a goes strictly before b
Precedes(a, b, spec) ==
    IF spec[2] = 1 THEN SortKey(a, spec[1]) < SortKey(b, spec[1])
    ELSE SortKey(a, spec[1]) > SortKey(b, spec[1])

RECURSIVE cursor_sort(_, _)
\* cursor.sort(spec): documents with equal keys keep their natural order
cursor_sort(docs, spec) ==
    IF docs = <<>> THEN <<>>
    ELSE LET rest == cursor_sort(SubSeq(docs, 1, Len(docs) - 1), spec)
             x == docs[Len(docs)]
             before == SelectSeq(rest, LAMBDA y : ~Precedes(x, y, spec))
             after == SelectSeq(rest, LAMBDA y : Precedes(x, y, spec))
         IN  before \o <<x>> \o after

\* faulty variant: the page is taken as 0-indexed
skip_page_times_limit(filters) == Max(0, filters.page * filters.limit)

skip(filters) == Max(0, (filters.page - 1) * filters.limit)

\* cursor.skip(n)
cursor_skip(docs, n) == SubSeq(docs, n + 1, Len(docs))

\* cursor.limit(n): 0 is no limit, a negative n limits to -n
cursor_limit(docs, n) ==
    IF n = 0 THEN docs
    ELSE SubSeq(docs, 1, Min(IF n < 0 THEN -n ELSE n, Len(docs)))

\* the cursor after the optional sort
sorted_cursor(collection, filters) ==
    LET cursor == find(collection, Query(filters))
    IN  IF sort_spec(filters) # None THEN cursor_sort(cursor, sort_spec(filters)[1])
        ELSE cursor

\* item["_id"] = str(item["_id"]) on the fetched copy
with_str_id(doc) == [doc EXCEPT !._id = ObjectIdToStr(doc._id)]

items(collection, filters) ==
    LET page == cursor_limit(cursor_skip(sorted_cursor(collection, filters), skip(filters)),
                             filters.limit)
    IN  [i \in 1..Len(page) |-> with_str_id(page[i])]

total(collection, filters) == count_documents(collection, Query(filters))

(***************************************************************************)
(* search_products: the facet pipelines                                    *)
(*   $match query, $unwind variants, $group by value with $sum 1,          *)
(*   $sort by count descending.                                            *)
(***************************************************************************)
RECURSIVE unwind(_)
\* {"$unwind": "$variants"}: one element per variant, in document order; a
\* document without variants yields none
unwind(docs) ==
    IF docs = <<>> THEN <<>>
    ELSE docs[1].variants \o unwind(Tail(docs))

RECURSIVE group_sum(_, _)
\* {"$group": {"_id": value, "count": {"$sum": 1}}} over a sequence of values:
\* one group per distinct value, in order of first appearance
group_sum(values, groups) ==
    IF values = <<>> THEN groups
    ELSE LET v == values[1]
             seen == \E g \in 1..Len(groups) : groups[g]._id = v
             next == IF seen
                     THEN [g \in 1..Len(groups) |->
                              IF groups[g]._id = v
                              THEN [groups[g] EXCEPT !.count = @ + 1]
                              ELSE groups[g]]
                     ELSE Append(groups, [_id |-> v, count |-> 1])
         IN  group_sum(Tail(values), next)

RECURSIVE sort_count_desc(_)
\* {"$sort": {"count": -1}}: groups with equal counts keep their order
sort_count_desc(groups) ==
    IF groups = <<>> THEN <<>>
    ELSE LET rest == sort_count_desc(SubSeq(groups, 1, Len(groups) - 1))
             x == groups[Len(groups)]
         IN  SelectSeq(rest, LAMBDA y : y.count >= x.count) \o <<x>>
             \o SelectSeq(rest, LAMBDA y : y.count < x.count)

RECURSIVE distinct(_)
\* the values of a sequence, each once, in order of first appearance
distinct(values) ==
    IF values = <<>> THEN <<>>
    ELSE LET rest == distinct(SubSeq(values, 1, Len(values) - 1))
             v == values[Len(values)]
         IN  IF \E k \in 1..Len(rest) : rest[k] = v THEN rest ELSE Append(rest, v)

RECURSIVE unwind_distinct(_, _)
\* the values of the variants, each once per document
unwind_distinct(docs, field) ==
    IF docs = <<>> THEN <<>>
    ELSE distinct([j \in 1..Len(docs[1].variants) |->
                      IF field = "color" THEN docs[1].variants[j].color
                      ELSE docs[1].variants[j].size])
         \o unwind_distinct(Tail(docs), field)

\* faulty variant: a value is counted once per product
aggregate_per_product(collection, query, field) ==
    sort_count_desc(group_sum(unwind_distinct(find(collection, query), field), <<>>))

\* collection.aggregate([...]) for the variant field "color" or "size"
aggregate(collection, query, field) ==
    LET variants == unwind(find(collection, query))
        values == [i \in 1..Len(variants) |->
                      IF field = "color" THEN variants[i].color ELSE variants[i].size]
    IN  sort_count_desc(group_sum(values, <<>>))

\* [{"value": c["_id"], "count": c["count"]} for c in counts if c.get("_id")]
facet_list(counts) ==
    LET kept == SelectSeq(counts, LAMBDA c : c._id # "")
    IN  [i \in 1..Len(kept) |-> [value |-> kept[i]._id, count |-> kept[i].count]]

\* faulty variant: the facets are counted over the documents of the returned page
facets_of_page(collection, filters) ==
    LET page == cursor_limit(cursor_skip(sorted_cursor(collection, filters), skip(filters)),
                             filters.limit)
    IN  [colors |-> facet_list(aggregate(page, Query(filters), "color")),
         sizes |-> facet_list(aggregate(page, Query(filters), "size"))]

facets(collection, filters) ==
    [colors |-> facet_list(aggregate(collection, Query(filters), "color")),
     sizes |-> facet_list(aggregate(collection, Query(filters), "size"))]

(***************************************************************************)
(* Requests and responses.                                                 *)
(***************************************************************************)
NoRequest == [op |-> "none", arg |-> <<>>, fault |-> 0]
NoResponse == [status |-> 0, detail |-> "", body |-> <<>>, dbcalls |-> <<>>]

\* raise HTTPException(status_code, detail), after the database calls made
HTTPException(status_code, detail, dbcalls) ==
    [status |-> status_code, detail |-> detail, body |-> <<>>, dbcalls |-> dbcalls]

\* a returned value, serialised with status 200
Ok(body, dbcalls) ==
    [status |-> 200, detail |-> "", body |-> body, dbcalls |-> dbcalls]

\* `if db is None: raise HTTPException(status_code=500, ...)`
NotConfigured == HTTPException(500, "Database not configured", <<>>)

\* an exception that leaves the handler: the framework answers 500
Unhandled(dbcalls) == HTTPException(500, "Internal Server Error", dbcalls)

(***************************************************************************)
(* The document gateway: create_document(collection_name, data) inserts    *)
(* one document and returns its generated identifier as a string.          *)
(***************************************************************************)
create_document(collection_name, collection, data) ==
    LET oid == GeneratedOid(collection_name, Len(collection) + 1)
    IN  [collection |-> Append(collection, [_id |-> oid] @@ data),
         id |-> ObjectIdToStr(oid)]

(***************************************************************************)
(* POST /api/products/seed                                                 *)
(***************************************************************************)
RECURSIVE seed_loop_continue(_, _, _, _)
\* faulty variant: a failing insert is skipped and the loop goes on
seed_loop_continue(st, products, k, fault) ==
    IF k > Len(products) THEN st
    ELSE IF k = fault
    THEN seed_loop_continue([st EXCEPT !.raised = TRUE, !.dbcalls = Append(@, "insert_one")],
                            products, k + 1, fault)
    ELSE LET r == create_document("product", st.collection, products[k])
         IN  seed_loop_continue([st EXCEPT !.collection = r.collection,
                                           !.inserted_ids = Append(@, r.id),
                                           !.dbcalls = Append(@, "insert_one")],
                                products, k + 1, fault)

RECURSIVE seed_loop(_, _, _, _)
\* `for prod in products`, from the k-th product on; st is the loop's state.
\* fault is the index of the create_document call that raises (0: none).
seed_loop(st, products, k, fault) ==
    IF k > Len(products) THEN st
    ELSE IF k = fault
    THEN [st EXCEPT !.raised = TRUE, !.dbcalls = Append(@, "insert_one")]
    ELSE LET r == create_document("product", st.collection, products[k])
         IN  seed_loop([st EXCEPT !.collection = r.collection,
                                  !.inserted_ids = Append(@, r.id),
                                  !.dbcalls = Append(@, "insert_one")],
                       products, k + 1, fault)

seed_result(collection, products, fault) ==
    seed_loop([collection |-> collection,
               inserted_ids |-> <<>>, raised |-> FALSE, dbcalls |-> <<>>],
              products, 1, fault)

seed_products ==
    /\ pc = "idle"
    /\ \E products \in SeedLists, fault \in 0..MaxBatch :
        /\ fault <= Len(products)
        /\ Len(product) + Len(products) <= MaxProducts
        /\ request' = [op |-> "seed", arg |-> products, fault |-> fault]
        /\ IF ~db
           THEN /\ response' = NotConfigured
                /\ UNCHANGED product
           ELSE LET r == seed_result(product, products, fault)
                IN  /\ product' = r.collection
                    /\ response' =
                          IF r.raised THEN Unhandled(r.dbcalls)
                          ELSE Ok([inserted |-> Len(r.inserted_ids), ids |-> r.inserted_ids],
                                  r.dbcalls)
    /\ pc' = "responded"
    /\ UNCHANGED <<db, order>>

(***************************************************************************)
(* POST /api/products/search                                               *)
(***************************************************************************)
\* faulty variant: the sort reorders the stored collection
collection_sorted_in_place(collection, filters) ==
    IF sort_spec(filters) # None THEN cursor_sort(collection, sort_spec(filters)[1])
    ELSE collection

\* the collection after the cursor has been read: find returns copies, and
\* sort, skip, limit and the identifier conversion act on the copies
collection_after_find(collection, filters) == collection

search_response(collection, filters) ==
    Ok([total |-> total(collection, filters),
        page |-> filters.page,
        limit |-> filters.limit,
        items |-> items(collection, filters),
        facets |-> facets(collection, filters)],
       <<"count_documents", "find", "aggregate", "aggregate">>)

search_products ==
    /\ pc = "idle"
    /\ \E filters \in FilterRequests :
        /\ request' = [op |-> "search", arg |-> filters, fault |-> 0]
        /\ IF ~db
           THEN /\ response' = NotConfigured
                /\ UNCHANGED product
           ELSE /\ response' = search_response(product, filters)
                /\ product' = collection_after_find(product, filters)
    /\ pc' = "responded"
    /\ UNCHANGED <<db, order>>

(***************************************************************************)
(* GET /api/products/{product_id}                                          *)
(***************************************************************************)
UpperStr(s) == [i \in 1..Len(s) |-> ToUpper(s[i])]

\* the identifiers of the products and orders within the bounds, and one
\* that is never generated
WellFormedIds ==
    {ObjectIdToStr(GeneratedOid("product", n)) : n \in 1..(MaxProducts + 1)}
    \cup {ObjectIdToStr(GeneratedOid("order", n)) : n \in 1..MaxOrders}

\* the path parameters the model sends
ProductIdStrings ==
    WellFormedIds
    \cup {UpperStr(s) : s \in WellFormedIds}
    \cup {SubSeq(s, 1, Len(s) - 1) : s \in WellFormedIds}
    \cup {Append(s, "0") : s \in WellFormedIds}
    \cup {[s EXCEPT ![Len(s)] = "g"] : s \in WellFormedIds}
    \cup {<<"n", "o", "t", "-", "a", "n", "-", "i", "d">>}

\* db["product"].find_one({"_id": obj_id}): the document, or None
find_one(collection, obj_id) ==
    LET found == SelectSeq(collection, LAMBDA d : d._id = obj_id)
    IN  IF found = <<>> THEN None ELSE Some(found[1])

\* faulty variant: an identifier that does not parse is answered like a missing one
get_product_invalid_as_missing(configured, collection, product_id) ==
    IF ~configured THEN NotConfigured
    ELSE IF ~ObjectIdValid(product_id)
    THEN HTTPException(404, "Not found", <<>>)
    ELSE LET doc == find_one(collection, ObjectIdParse(product_id))
         IN  IF doc = None THEN HTTPException(404, "Not found", <<"find_one">>)
             ELSE Ok(with_str_id(doc[1]), <<"find_one">>)

\* faulty variant: the identifier is parsed before the handle is tested
get_product_parse_first(configured, collection, product_id) ==
    IF ~ObjectIdValid(product_id)
    THEN HTTPException(400, "Invalid product id", <<>>)
    ELSE IF ~configured THEN NotConfigured
    ELSE LET doc == find_one(collection, ObjectIdParse(product_id))
         IN  IF doc = None THEN HTTPException(404, "Not found", <<"find_one">>)
             ELSE Ok(with_str_id(doc[1]), <<"find_one">>)

get_product_response(configured, collection, product_id) ==
    IF ~configured THEN NotConfigured
    ELSE IF ~ObjectIdValid(product_id)
    THEN HTTPException(400, "Invalid product id", <<>>)
    ELSE LET doc == find_one(collection, ObjectIdParse(product_id))
         IN  IF doc = None THEN HTTPException(404, "Not found", <<"find_one">>)
             ELSE Ok(with_str_id(doc[1]), <<"find_one">>)

get_product ==
    /\ pc = "idle"
    /\ \E product_id \in ProductIdStrings :
        /\ request' = [op |-> "get", arg |-> product_id, fault |-> 0]
        /\ response' = get_product_response(db, product, product_id)
    /\ pc' = "responded"
    /\ UNCHANGED <<db, product, order>>

(***************************************************************************)
(* POST /api/orders                                                        *)
(***************************************************************************)
CartItem(product_id, title, price, quantity) ==
    [product_id |-> product_id, title |-> title, price |-> price, quantity |-> quantity]

\* schemas.Order after validation: the items and the amounts
Orders ==
    {[items |-> <<CartItem(ObjectIdToStr(GeneratedOid("product", 1)), <<"L", "a", "c", "e">>, 20, q)>>,
      subtotal |-> 20 * q, total |-> 20 * q] : q \in {1}}

create_order_result(collection, data, fault) ==
    IF fault # 0
    THEN [collection |-> collection, response |-> Unhandled(<<"insert_one">>)]
    ELSE LET r == create_document("order", collection, data)
         IN  [collection |-> r.collection,
              response |-> Ok([order_id |-> r.id], <<"insert_one">>)]

create_order ==
    /\ pc = "idle"
    /\ \E data \in Orders, fault \in {0, 1} :
        /\ Len(order) < MaxOrders
        /\ request' = [op |-> "order", arg |-> data, fault |-> fault]
        /\ IF ~db
           THEN /\ response' = NotConfigured
                /\ UNCHANGED order
           ELSE LET r == create_order_result(order, data, fault)
                IN  /\ order' = r.collection
                    /\ response' = r.response
    /\ pc' = "responded"
    /\ UNCHANGED <<db, product>>

(***************************************************************************)
(* The response goes out and the next request can be handled.              *)
(***************************************************************************)
deliver ==
    /\ pc = "responded"
    /\ pc' = "idle"
    /\ request' = NoRequest
    /\ response' = NoResponse
    /\ UNCHANGED <<db, product, order>>

Init ==
    /\ db \in BOOLEAN
    /\ product = <<>>
    /\ order = <<>>
    /\ pc = "idle"
    /\ request = NoRequest
    /\ response = NoResponse

Next ==
    \/ seed_products
    \/ search_products
    \/ get_product
    \/ create_order
    \/ deliver

Spec == Init /\ [][Next]_vars

(***************************************************************************)
(* Properties.                                                             *)
(***************************************************************************)
\* a search has been answered with a result
Searched == pc = "responded" /\ request.op = "search" /\ response.status = 200

\* the number of documents of the collection that satisfy P
CountDocs(collection, P(_)) == Cardinality({i \in 1..Len(collection) : P(collection[i])})

HasColorIn(doc, colors) ==
    \E j \in 1..Len(doc.variants) : \E k \in 1..Len(colors) : doc.variants[j].color = colors[k]

HasSizeIn(doc, sizes) ==
    \E j \in 1..Len(doc.variants) : \E k \in 1..Len(sizes) : doc.variants[j].size = sizes[k]

\* C1: every product in the items returned by search_products has
\* is_active = TRUE, whatever the filter request and the stored catalog.
C1_OnlyActiveReturned ==
    Searched =>
        \A i \in 1..Len(response.body.items) : response.body.items[i].is_active = TRUE

\* an inactive product is stored, the request filters on color, and the
\* search returned something
C1_Witness ==
    /\ Searched
    /\ \E i \in 1..Len(product) : ~product[i].is_active
    /\ request.arg.colors = Some(<<"red">>)
    /\ Len(response.body.items) > 0

\* C2: with a non-empty colors list every returned product has a variant
\* whose color is in the list, and likewise for sizes; the two conditions are
\* tested separately over the variant list and combined with AND: when they
\* are the only filters, the matching products are the active ones that have
\* some variant of a listed color and some variant of a listed size.
C2_VariantFilters ==
    Searched =>
        LET f == request.arg
            its == response.body.items
        IN  /\ (f.colors # None /\ f.colors[1] # <<>>) =>
                    \A i \in 1..Len(its) : HasColorIn(its[i], f.colors[1])
            /\ (f.sizes # None /\ f.sizes[1] # <<>>) =>
                    \A i \in 1..Len(its) : HasSizeIn(its[i], f.sizes[1])
            /\ ( /\ f.colors # None /\ f.colors[1] # <<>>
                 /\ f.sizes # None /\ f.sizes[1] # <<>>
                 /\ f.price_min = None /\ f.price_max = None
                 /\ f.category = None /\ f.subcategory = None
                 /\ f.tags = None /\ f.search = None ) =>
                    response.body.total =
                        CountDocs(product, LAMBDA d : /\ d.is_active
                                                      /\ HasColorIn(d, f.colors[1])
                                                      /\ HasSizeIn(d, f.sizes[1]))

\* a returned product meets the color filter and the size filter, and no
\* single variant of it meets both
C2_Witness ==
    /\ Searched
    /\ request.arg.colors # None /\ request.arg.colors[1] # <<>>
    /\ request.arg.sizes # None /\ request.arg.sizes[1] # <<>>
    /\ \E i \in 1..Len(response.body.items) :
          LET d == response.body.items[i]
          IN  ~\E j \in 1..Len(d.variants) :
                  /\ InList(d.variants[j].color, request.arg.colors[1])
                  /\ InList(d.variants[j].size, request.arg.sizes[1])

\* the filters of the request other than the price bounds
OtherFiltersMatch(doc, filters) ==
    Matches(doc, [Query(filters) EXCEPT !.price = None])

PriceInBounds(doc, filters) ==
    /\ filters.price_min = None \/ doc.price >= filters.price_min[1]
    /\ filters.price_max = None \/ doc.price <= filters.price_max[1]

\* C3: price filtering is inclusive and each bound is optional on its own: the
\* matched products are exactly the products that satisfy the other filters
\* and whose price is >= price_min (if set) and <= price_max (if set); a
\* bound of 0 is applied.
C3_PriceInclusive ==
    Searched =>
        LET f == request.arg
        IN  /\ response.body.total =
                  CountDocs(product, LAMBDA d : OtherFiltersMatch(d, f) /\ PriceInBounds(d, f))
            /\ \A i \in 1..Len(response.body.items) :
                  PriceInBounds(response.body.items[i], f)

\* a product priced exactly at price_min and at price_max is returned
C3_Witness ==
    /\ Searched
    /\ request.arg.price_min = Some(10)
    /\ request.arg.price_max = Some(10)
    /\ \E i \in 1..Len(response.body.items) : response.body.items[i].price = 10

\* C4: for page >= 1 and limit >= 1 the items are the elements at positions
\* (page-1)*limit+1 .. page*limit of the unpaginated filtered and sorted
\* sequence, in order (fewer when the sequence is shorter); the number of
\* skipped records is never negative.
C4_Pagination ==
    Searched =>
        LET f == request.arg
            full == sorted_cursor(product, f)
            first == (f.page - 1) * f.limit + 1
            n == Max(0, Min(f.limit, Len(full) - first + 1))
            its == response.body.items
        IN  /\ skip(f) >= 0
            /\ (f.page >= 1 /\ f.limit >= 1) =>
                  /\ skip(f) = (f.page - 1) * f.limit
                  /\ Len(its) = n
                  /\ \A i \in 1..n :
                        /\ its[i]._id = ObjectIdToStr(full[first + i - 1]._id)
                        /\ its[i].title = full[first + i - 1].title
                        /\ its[i].price = full[first + i - 1].price

\* the second page of one, of a sorted result of three
C4_Witness ==
    /\ Searched
    /\ request.arg.page = 2 /\ request.arg.limit = 1
    /\ request.arg.sort = Some("price_desc")
    /\ response.body.total = 3
    /\ Len(response.body.items) = 1

\* C5: the total and the facets are computed over the full set of matching
\* products, not over the returned page: whatever the page and the limit of
\* the request, they are those of the same request without paging (first
\* page, no limit), whose items are all the matching products.
C5_FacetsOverFullSet ==
    Searched =>
        LET unpaged == [request.arg EXCEPT !.page = DefaultPage, !.limit = 0]
        IN  /\ response.body.total = Len(items(product, unpaged))
            /\ response.body.facets = facets(product, unpaged)

\* a page beyond the end: no items, and still a total and facets
C5_Witness ==
    /\ Searched
    /\ response.body.items = <<>>
    /\ response.body.total > 0
    /\ response.body.facets.colors # <<>>
    /\ response.body.facets.sizes # <<>>

\* the documents of the collection that match the request
Matching(collection, filters) ==
    {i \in 1..Len(collection) : Matches(collection[i], Query(filters))}

VariantValue(variant, field) ==
    IF field = "color" THEN variant.color ELSE variant.size

\* the variant occurrences <<document, variant>> of a value among the
\* matching documents
Occurrences(collection, filters, field, value) ==
    UNION {{<<i, j>> : j \in {j \in 1..Len(collection[i].variants) :
                                VariantValue(collection[i].variants[j], field) = value}} :
           i \in Matching(collection, filters)}

\* the matching documents with at least one variant of a value
ProductsWith(collection, filters, field, value) ==
    {i \in Matching(collection, filters) :
        \E j \in 1..Len(collection[i].variants) :
            VariantValue(collection[i].variants[j], field) = value}

\* the non-empty values of the variants of the matching documents
FacetValues(collection, filters, field) ==
    UNION {{VariantValue(collection[i].variants[j], field) :
                j \in 1..Len(collection[i].variants)} :
           i \in Matching(collection, filters)} \ {""}

\* C6 as claimed: the count of a facet value is the number of matching
\* products with at least one variant of that value.
C6_CountsProducts ==
    Searched =>
        /\ \A k \in 1..Len(response.body.facets.colors) :
              LET e == response.body.facets.colors[k]
              IN  /\ e.value # ""
                  /\ e.count = Cardinality(ProductsWith(product, request.arg, "color", e.value))
        /\ \A k \in 1..Len(response.body.facets.sizes) :
              LET e == response.body.facets.sizes[k]
              IN  /\ e.value # ""
                  /\ e.count = Cardinality(ProductsWith(product, request.arg, "size", e.value))

\* the facet list has one entry for each value of vals, and no other
ListsExactly(list, vals) ==
    /\ {list[k].value : k \in 1..Len(list)} = vals
    /\ Len(list) = Cardinality(vals)

\* C6, amended: the count of a facet value is the number of variants with
\* that value over all matching products (a product with two variants of a
\* color counts twice); each non-empty value of a matching product's variants
\* is listed once, empty values are not listed, and counts do not increase
\* along the list.
C6_CountsVariants ==
    Searched =>
        LET cs == response.body.facets.colors
            ss == response.body.facets.sizes
        IN  /\ ListsExactly(cs, FacetValues(product, request.arg, "color"))
            /\ ListsExactly(ss, FacetValues(product, request.arg, "size"))
            /\ \A k \in 1..Len(cs) :
                  cs[k].count = Cardinality(Occurrences(product, request.arg, "color", cs[k].value))
            /\ \A k \in 1..Len(ss) :
                  ss[k].count = Cardinality(Occurrences(product, request.arg, "size", ss[k].value))
            /\ \A k \in 1..(Len(cs) - 1) : cs[k].count >= cs[k + 1].count
            /\ \A k \in 1..(Len(ss) - 1) : ss[k].count >= ss[k + 1].count

\* one matching product with two red variants and one with an empty color:
\* red is counted twice and the empty color is not listed
C6_Witness ==
    /\ Searched
    /\ Cardinality(ProductsWith(product, request.arg, "color", "red")) = 1
    /\ Occurrences(product, request.arg, "color", "") # {}
    /\ \E k \in 1..Len(response.body.facets.colors) :
          /\ response.body.facets.colors[k].value = "red"
          /\ response.body.facets.colors[k].count = 2

\* the characters of a well-formed identifier
HexChars ==
    {"0", "1", "2", "3", "4", "5", "6", "7", "8", "9",
     "a", "b", "c", "d", "e", "f", "A", "B", "C", "D", "E", "F"}

\* 24 hexadecimal digits
WellFormed(s) == Len(s) = 24 /\ \A i \in 1..Len(s) : s[i] \in HexChars

\* the stored products whose identifier, written in hexadecimal, is s up to
\* letter case
StoredAs(s) ==
    {i \in 1..Len(product) :
        LET h == ObjectIdToStr(product[i]._id)
        IN  Len(h) = Len(s) /\ \A k \in 1..Len(h) : h[k] = ToLower(s[k])}

\* C7: with the database configured, get_product answers a malformed
\* identifier with 400 and no query, a well-formed identifier of no stored
\* product with 404, and a well-formed identifier of a stored product with
\* that product, its identifier a string of hexadecimal digits.
C7_GetProductOutcomes ==
    (pc = "responded" /\ request.op = "get" /\ db) =>
        LET s == request.arg
        IN  /\ ~WellFormed(s) =>
                  /\ response.status = 400
                  /\ response.dbcalls = <<>>
            /\ (WellFormed(s) /\ StoredAs(s) = {}) => response.status = 404
            /\ (WellFormed(s) /\ StoredAs(s) # {}) =>
                  /\ response.status = 200
                  /\ \E i \in StoredAs(s) :
                        /\ response.body._id = ObjectIdToStr(product[i]._id)
                        /\ \A k \in 1..Len(s) : response.body._id[k] = ToLower(s[k])
                        /\ response.body.title = product[i].title
                        /\ response.body.price = product[i].price
                        /\ response.body.variants = product[i].variants
                        /\ response.body.is_active = product[i].is_active
            /\ response.status \in {200, 400, 404}

\* a stored product fetched by its identifier written in upper case: the
\* identifier of the response is not the string of the request
C7_Witness ==
    /\ pc = "responded" /\ request.op = "get" /\ db
    /\ response.status = 200
    /\ response.body._id # request.arg

\* C8 as claimed: without a database handle every handler fails with the
\* "not configured" error as a service-unavailable (503) response and calls
\* the database neither for reading nor for writing.
C8_ServiceUnavailable ==
    ~db =>
        /\ product = <<>> /\ order = <<>>
        /\ pc = "responded" =>
              /\ response.status = 503
              /\ response.detail = "Database not configured"
              /\ response.dbcalls = <<>>

\* C8, amended: without a database handle every handler fails with status
\* 500 and detail "Database not configured", whatever the request, returns
\* no body, and calls the database neither for reading nor for writing.
C8_NotConfigured ==
    ~db =>
        /\ product = <<>> /\ order = <<>>
        /\ pc = "responded" =>
              /\ request.op \in {"seed", "search", "get", "order"}
              /\ response.status = 500
              /\ response.detail = "Database not configured"
              /\ DOMAIN response.body = {}
              /\ response.dbcalls = <<>>

\* without a database handle, a malformed product id is answered
C8_Witness ==
    /\ ~db
    /\ pc = "responded"
    /\ request.op = "get"
    /\ ~WellFormed(request.arg)

\* s is a prefix of t
IsPrefix(s, t) == Len(s) <= Len(t) /\ \A i \in 1..Len(s) : t[i] = s[i]

\* C9: a stored record stays stored, at its place, with the same identifier
\* and field values, whatever the handler; search_products and get_product
\* leave both collections as they are.
C9_RecordsKept ==
    [][ /\ IsPrefix(product, product')
        /\ IsPrefix(order, order')
        /\ request'.op \in {"search", "get"} => (product' = product /\ order' = order)
      ]_vars

\* a sorted search over three stored products returned them with their
\* identifiers as strings
C9_Witness ==
    /\ Searched
    /\ Len(product) = 3
    /\ request.arg.sort = Some("price_asc")
    /\ Len(response.body.items) = 3
    /\ response.body.items[1].price < response.body.items[3].price
    /\ product[1].price > product[3].price
    /\ \A i \in 1..3 : Len(response.body.items[i]._id) = 24

\* C10 as claimed: a seed in which an insert raises leaves the product
\* collection as it was before the call.
C10_FailedSeedPersistsNothing ==
    [][ (request'.op = "seed" /\ response'.status # 200) => product' = product ]_vars

\* the fields of a stored document are those of the submitted product
StoredFrom(doc, prod) == \A k \in DOMAIN prod : doc[k] = prod[k]

\* C10, amended: a seed in which the insert of the k-th record raises is
\* answered with an error, without identifiers or count; no record from the
\* k-th on is inserted, and the k-1 records before it stay persisted, in
\* order, after the documents stored before the call.
C10_FailedSeedKeepsPrefix ==
    [][ (request'.op = "seed" /\ db /\ request'.fault > 0) =>
            /\ response'.status = 500
            /\ DOMAIN response'.body = {}
            /\ IsPrefix(product, product')
            /\ Len(product') = Len(product) + request'.fault - 1
            /\ \A k \in 1..(request'.fault - 1) :
                  StoredFrom(product'[Len(product) + k], request'.arg[k])
      ]_vars

\* a seed of two products failed at the second: the first is stored
C10_Witness ==
    /\ pc = "responded"
    /\ request.op = "seed"
    /\ Len(request.arg) = 2
    /\ request.fault = 2
    /\ response.status = 500
    /\ Len(product) = 1
    /\ StoredFrom(product[1], request.arg[1])

====
